---- MODULE Spec2Model ----
(***************************************************************************)
(* Model of src/server.js: a reverse proxy in front of the generative      *)
(* language API.  One request is followed from the CORS middleware through *)
(* the catch-all handler (key extraction, version negotiation, body        *)
(* compatibility, request building) to the streaming relay and the         *)
(* response's 'finish' listener.                                           *)
(*                                                                         *)
(* Strings are sequences of tokens: a token is either a run of             *)
(* non-blank, non-slash characters (a word), one blank (" " or "\t"), or   *)
(* one "/".  No two words are adjacent, so prefix tests and the regular    *)
(* expressions of the source act on tokens exactly as on characters.       *)
(***************************************************************************)
EXTENDS Integers, Sequences, FiniteSets, TLC

VARIABLES
    pc,             \* position of the request in the middleware/handler
    debugMode,      \* DEBUG_MODE (process.env.DEBUG === 'true')
    req,            \* the inbound request: method, path, headers, query, body
    heap,           \* object store: heap[r] is the JSON tree the reference r names
    apiKey,         \* const apiKey in the handler
    targetVersion,  \* let targetVersion in the handler
    compatibleBody, \* const compatibleBody in the handler (a reference)
    outbound,       \* the axios call issued for this request, if any
    res,            \* the caller-facing response
    upstream,       \* the upstream response stream (response.data)
    caller,         \* "open" while the caller's connection is alive, else "gone"
    log,            \* messages written by debugLog
    hdrTrace,       \* every header write attempted on res, with res.headersSent at that time
    crashed,        \* an exception escaped every handler (uncaught)
    ret             \* result of the function applied in the function-level specifications

vars == << pc, debugMode, req, heap, apiKey, targetVersion, compatibleBody,
           outbound, res, upstream, caller, log, hdrTrace, crashed, ret >>

----------------------------------------------------------------------------
(* JavaScript values of string type, and the two non-values.               *)

null == << "#null" >>
undefined == << "#undefined" >>

\* JavaScript truthiness of a string-or-null-or-undefined value
Truthy(s) == s # null /\ s # undefined /\ s # << >>

IsWS(t) == t \in {" ", "\t"}

\* the i flag of the regular expression, on the one word it applies to
Lower(t) == IF t \in {"Bearer", "bearer", "BEARER"} THEN "bearer" ELSE t

\* String.prototype.trim
RECURSIVE trimStart(_)
trimStart(s) == IF s # << >> /\ IsWS(Head(s)) THEN trimStart(Tail(s)) ELSE s

RECURSIVE trimEnd(_)
trimEnd(s) ==
    IF s # << >> /\ IsWS(s[Len(s)]) THEN trimEnd(SubSeq(s, 1, Len(s) - 1)) ELSE s

trim(s) == trimEnd(trimStart(s))

\* String.prototype.includes(' ')
includesSpace(s) == \E i \in 1..Len(s) : s[i] = " "

\* String.prototype.startsWith
startsWith(s, p) == Len(s) >= Len(p) /\ SubSeq(s, 1, Len(p)) = p

\* index of the last token of the blank run that starts at position i
RECURSIVE wsRunEnd(_, _)
wsRunEnd(s, i) == IF i < Len(s) /\ IsWS(s[i + 1]) THEN wsRunEnd(s, i + 1) ELSE i

\* mutation of bearerMatch: the i flag is missing
bearerMatchCaseSensitive(auth) ==
    IF Len(auth) >= 3 /\ auth[1] = "Bearer" /\ IsWS(auth[2])
    THEN LET e == wsRunEnd(auth, 2)
         IN  IF e < Len(auth) THEN SubSeq(auth, e + 1, Len(auth))
             ELSE << auth[Len(auth)] >>
    ELSE null

\* auth.match(/^Bearer\s+(.+)$/i): the captured group, or null.  \s+ is
\* greedy and gives one blank back when nothing else is left for (.+).
bearerMatch(auth) ==
    IF Len(auth) >= 3 /\ Lower(auth[1]) = "bearer" /\ IsWS(auth[2])
    THEN LET e == wsRunEnd(auth, 2)
         IN  IF e < Len(auth) THEN SubSeq(auth, e + 1, Len(auth))
             ELSE << auth[Len(auth)] >>
    ELSE null

queryKeys == << "key", "api_key", "apikey", "token", "access_token" >>

\* the for loop over queryKeys: first truthy parameter, else null
RECURSIVE firstQueryKey(_, _)
firstQueryKey(query, i) ==
    IF i > Len(queryKeys) THEN null
    ELSE IF Truthy(query[queryKeys[i]]) THEN query[queryKeys[i]]
    ELSE firstQueryKey(query, i + 1)

extractApiKey(r) ==
    IF Truthy(r.headers["x-goog-api-key"]) THEN r.headers["x-goog-api-key"]
    ELSE LET auth == r.headers["authorization"]
         IN  IF Truthy(auth) /\ bearerMatch(auth) # null THEN trim(bearerMatch(auth))
             ELSE IF Truthy(auth) /\ ~includesSpace(auth) THEN trim(auth)
             ELSE firstQueryKey(r.query, 1)

----------------------------------------------------------------------------
(* JSON values (req.body and everything below it) are trees.  An object is *)
(* its sequence of entries in insertion order, as Object.values and        *)
(* JSON.stringify see it.                                                  *)

JV(t, s, a) == [t |-> t, s |-> s, a |-> a]
JUndefined == JV("undefined", "", << >>)
JNull == JV("null", "", << >>)
JBool(s) == JV("boolean", s, << >>)
JNum(s) == JV("number", s, << >>)
JStr(s) == JV("string", s, << >>)
JArr(items) == JV("array", "", items)
JObj(entries) == JV("object", "", entries)
Entry(k, v) == [k |-> k, v |-> v]

\* Array.isArray(v)
isArray(v) == v.t = "array"

\* typeof v === 'object'
isObjectType(v) == v.t \in {"null", "array", "object"}

\* JavaScript truthiness of a JSON value
JTruthy(v) ==
    CASE v.t \in {"undefined", "null"} -> FALSE
      [] v.t = "boolean" -> v.s = "true"
      [] v.t = "number" -> v.s # "0"
      [] v.t = "string" -> v.s # ""
      [] OTHER -> TRUE

\* field in obj, for a plain object
hasKey(obj, key) == \E i \in 1..Len(obj.a) : obj.a[i].k = key

\* v[key] for a value that is neither null nor undefined: the entry of an
\* object, undefined on an array or a primitive
getProp(v, key) ==
    IF v.t = "object" /\ hasKey(v, key)
    THEN (CHOOSE e \in {v.a[i] : i \in 1..Len(v.a)} : e.k = key).v
    ELSE JUndefined

\* reading a property of null or undefined raises TypeError
propThrows(v) == v.t \in {"null", "undefined"}

\* the outcome of a call: a returned boolean or a raised TypeError
Return(b) == [kind |-> "return", value |-> b]
ThrowTypeError == [kind |-> "throw", value |-> FALSE]

unsupportedInV1 == {"systemInstruction", "tool_config", "tool_calls"}

\* for (const param of unsupportedInV1) if (v[param]) return true
anyUnsupported(v) == \E param \in unsupportedInV1 : JTruthy(getProp(v, param))

\* for (const part of content.parts) ...
RECURSIVE scanParts(_, _)
scanParts(parts, j) ==
    IF j > Len(parts) THEN Return(FALSE)
    ELSE IF propThrows(parts[j]) THEN ThrowTypeError
    ELSE IF anyUnsupported(parts[j]) THEN Return(TRUE)
    ELSE scanParts(parts, j + 1)

\* for (const content of body.contents) ...
RECURSIVE scanContents(_, _)
scanContents(contents, i) ==
    IF i > Len(contents) THEN Return(FALSE)
    ELSE IF propThrows(contents[i]) THEN ThrowTypeError
    ELSE LET parts == getProp(contents[i], "parts")
             inner == IF JTruthy(parts) /\ isArray(parts)
                      THEN scanParts(parts.a, 1) ELSE Return(FALSE)
         IN  IF inner = Return(FALSE) THEN scanContents(contents, i + 1) ELSE inner

needsVersionDowngrade(body) ==
    IF ~JTruthy(body) \/ ~isObjectType(body) THEN Return(FALSE)
    ELSE IF anyUnsupported(body) THEN Return(TRUE)
    ELSE LET contents == getProp(body, "contents")
         IN  IF JTruthy(contents) /\ isArray(contents)
             THEN scanContents(contents.a, 1) ELSE Return(FALSE)

\* fields.forEach(field => { if (field in obj) delete obj[field] })
deleteFields(entries, fields) == SelectSeq(entries, LAMBDA e : e.k \notin fields)

\* the value obj holds once removeUnsupportedFields(obj, fields) has returned
RECURSIVE removeUnsupportedFields(_, _)
removeUnsupportedFields(obj, fields) ==
    IF isArray(obj)
    THEN JArr([i \in 1..Len(obj.a) |-> removeUnsupportedFields(obj.a[i], fields)])
    ELSE IF obj.t = "object"
    THEN LET kept == deleteFields(obj.a, fields)
         IN  JObj([i \in 1..Len(kept) |->
                     Entry(kept[i].k, removeUnsupportedFields(kept[i].v, fields))])
    ELSE obj

\* JSON text as a sequence of tokens
Tok(k, s) == [k |-> k, s |-> s]

RECURSIVE JSONstringify(_)
RECURSIVE stringifyItems(_, _)
RECURSIVE stringifyMembers(_, _)
stringifyItems(items, i) ==
    IF i > Len(items) THEN << >>
    ELSE JSONstringify(items[i]) \o stringifyItems(items, i + 1)
stringifyMembers(entries, i) ==
    IF i > Len(entries) THEN << >>
    ELSE << Tok("key", entries[i].k) >> \o JSONstringify(entries[i].v)
             \o stringifyMembers(entries, i + 1)
JSONstringify(v) ==
    CASE v.t = "array" -> << Tok("[", "") >> \o stringifyItems(v.a, 1) \o << Tok("]", "") >>
      [] v.t = "object" -> << Tok("{", "") >> \o stringifyMembers(v.a, 1) \o << Tok("}", "") >>
      [] OTHER -> << Tok(v.t, v.s) >>

\* obj[key] = v while parsing: a repeated key keeps its place, last value wins
setEntry(entries, key, v) ==
    IF \E i \in 1..Len(entries) : entries[i].k = key
    THEN [i \in 1..Len(entries) |-> IF entries[i].k = key THEN Entry(key, v) ELSE entries[i]]
    ELSE Append(entries, Entry(key, v))

\* parseValue(toks): the value the text starts with, and the text after it
RECURSIVE parseValue(_)
RECURSIVE parseItems(_, _)
RECURSIVE parseMembers(_, _)
parseItems(toks, acc) ==
    IF Head(toks).k = "]" THEN [v |-> JArr(acc), rest |-> Tail(toks)]
    ELSE LET r == parseValue(toks) IN parseItems(r.rest, Append(acc, r.v))
parseMembers(toks, acc) ==
    IF Head(toks).k = "}" THEN [v |-> JObj(acc), rest |-> Tail(toks)]
    ELSE LET r == parseValue(Tail(toks))
         IN  parseMembers(r.rest, setEntry(acc, Head(toks).s, r.v))
parseValue(toks) ==
    CASE Head(toks).k = "[" -> parseItems(Tail(toks), << >>)
      [] Head(toks).k = "{" -> parseMembers(Tail(toks), << >>)
      [] OTHER -> [v |-> JV(Head(toks).k, Head(toks).s, << >>), rest |-> Tail(toks)]

JSONparse(toks) == parseValue(toks).v

unsupportedFields == {"systemInstruction", "tool_config", "tool_calls"}

\* mutation of makeBodyCompatible: the deep copy is missing, the fields are
\* removed from the object the caller passed
makeBodyCompatibleInPlace(h, body, version) ==
    IF ~JTruthy(h[body]) \/ version # "v1" THEN [heap |-> h, ret |-> body]
    ELSE [heap |-> [h EXCEPT ![body] = removeUnsupportedFields(h[body], unsupportedFields)],
          ret |-> body]

\* makeBodyCompatible on the object store h: body is a reference; the result
\* is the store after the call and the reference returned
makeBodyCompatible(h, body, version) ==
    IF ~JTruthy(h[body]) \/ version # "v1" THEN [heap |-> h, ret |-> body]
    ELSE LET newBody == Len(h) + 1
             h1 == Append(h, JSONparse(JSONstringify(h[body])))
         IN  [heap |-> [h1 EXCEPT ![newBody] =
                            removeUnsupportedFields(h1[newBody], unsupportedFields)],
              ret |-> newBody]

----------------------------------------------------------------------------
(* The request, the response and the upstream stream.                      *)

DEFAULT_API_VERSION == "v1beta"

HeaderNames == {"x-goog-api-key", "authorization", "http-debug"}
QueryNames == {"key", "api_key", "apikey", "token", "access_token", "debug", "alt"}

NoCall == [issued |-> FALSE]
NoJson == [absent |-> TRUE]

\* a ServerResponse on which nothing has been done yet
freshRes ==
    [status |-> 200, headersSent |-> FALSE, ended |-> FALSE, finished |-> FALSE,
     listening |-> FALSE, json |-> NoJson, bytes |-> << >>]

noUpstream == [state |-> "none", piped |-> FALSE, total |-> 0, pos |-> 0]

\* res.header / res.setHeader of every name in names, at the current res
setHeaders(trace, r, names) ==
    trace \cup { [name |-> n, sent |-> r.headersSent] : n \in names }

\* res.status(code).end()
endEmpty(r, code) ==
    [r EXCEPT !.status = code, !.headersSent = TRUE, !.ended = TRUE,
              !.finished = (caller = "open")]

\* res.status(code).json(payload)
\* json is the payload handed to res.json.  end(chunk) on a response whose
\* connection is destroyed is refused before the headers are generated: the
\* response is ended, nothing is sent and headersSent stays as it was.
sendJson(r, code, payload) ==
    [r EXCEPT !.status = code, !.json = payload,
              !.headersSent = (r.headersSent \/ caller = "open"),
              !.ended = TRUE, !.finished = (caller = "open")]

\* debugLog(message): writes only in debug mode
debugLog(l, message) == IF debugMode THEN Append(l, message) ELSE l

corsHeaders ==
    { << "Access-Control-Allow-Origin" >>, << "Access-Control-Allow-Methods" >>,
      << "Access-Control-Allow-Headers" >>, << "Access-Control-Max-Age" >> }

\* app.use((req, res, next) => ...): CORS headers, X-Request-ID, the finish
\* listener, and the OPTIONS short-circuit
Middleware ==
    /\ pc = "received"
    /\ ~crashed
    /\ hdrTrace' = setHeaders(hdrTrace, res, corsHeaders \cup { << "X-Request-ID" >> })
    /\ IF req.method = "OPTIONS"
       THEN /\ res' = endEmpty([res EXCEPT !.listening = TRUE], 204)
            /\ pc' = "done"
       ELSE /\ res' = [res EXCEPT !.listening = TRUE]
            /\ pc' = "handler"
    /\ UNCHANGED << debugMode, req, heap, apiKey, targetVersion, compatibleBody,
                    outbound, upstream, caller, log, crashed, ret >>

\* res.on('finish', ...): res.header('X-Response-Time', ...) once the response
\* is out.  setHeader raises ERR_HTTP_HEADERS_SENT when the headers were sent,
\* and nothing catches what a listener raises.
OnFinish ==
    /\ res.listening /\ res.finished
    /\ ~crashed
    /\ hdrTrace' = setHeaders(hdrTrace, res, { << "X-Response-Time" >> })
    /\ res' = [res EXCEPT !.listening = FALSE]
    /\ crashed' = res.headersSent
    /\ UNCHANGED << pc, debugMode, req, heap, apiKey, targetVersion, compatibleBody,
                    outbound, upstream, caller, log, ret >>

faviconPath == << "/", "favicon.ico" >>

\* if (req.path === '/favicon.ico') return res.status(404).end()
Favicon ==
    /\ pc = "handler"
    /\ ~crashed
    /\ req.path = faviconPath
    /\ res' = endEmpty(res, 404)
    /\ pc' = "done"
    /\ UNCHANGED << debugMode, req, heap, apiKey, targetVersion, compatibleBody,
                    outbound, upstream, caller, log, hdrTrace, crashed, ret >>

\* req.query.debug === 'true' || req.headers['http-debug'] === 'true'
debugRequested(r) == r.query["debug"] = << "true" >> \/ r.headers["http-debug"] = << "true" >>

\* mutation of debugPayload: the key itself is echoed
debugPayloadWithKey(method, path, key) ==
    [debug |-> TRUE, method |-> method, path |-> path, api_key |-> key,
     api_key_found |-> Truthy(key), server_info |-> "process"]

\* the payload of the debug route
debugPayload(method, path, key) ==
    [debug |-> TRUE, method |-> method, path |-> path,
     api_key_found |-> Truthy(key), server_info |-> "process"]

DebugRoute ==
    /\ pc = "handler"
    /\ ~crashed
    /\ req.path # faviconPath
    /\ debugRequested(req)
    /\ apiKey' = extractApiKey(req)
    /\ res' = sendJson(res, 200, debugPayload(req.method, req.path, apiKey'))
    /\ pc' = "done"
    /\ UNCHANGED << debugMode, req, heap, targetVersion, compatibleBody,
                    outbound, upstream, caller, log, hdrTrace, crashed, ret >>

\* mutation of keyMissing: the check for a missing key is gone
keyMissingNever(key) == FALSE

\* if (!apiKey)
keyMissing(key) == ~Truthy(key)

authError ==
    [error |-> [code |-> 401, message |-> << "API key not found" >>,
                status |-> "UNAUTHENTICATED"]]

Unauthenticated ==
    /\ pc = "handler"
    /\ ~crashed
    /\ req.path # faviconPath
    /\ ~debugRequested(req)
    /\ apiKey' = extractApiKey(req)
    /\ keyMissing(apiKey')
    /\ res' = sendJson(res, 401, authError)
    /\ pc' = "done"
    /\ UNCHANGED << debugMode, req, heap, targetVersion, compatibleBody,
                    outbound, upstream, caller, log, hdrTrace, crashed, ret >>

\* path.match(/^\/(v1|v1beta)\//): the captured version, or null
versionMatch(path) ==
    IF Len(path) >= 3 /\ path[1] = "/" /\ path[2] \in {"v1", "v1beta"} /\ path[3] = "/"
    THEN << path[2] >> ELSE null

\* the version negotiation threw: only reached when the path carries no version
negotiationThrows(path, body) ==
    versionMatch(path) = null /\ needsVersionDowngrade(body).kind = "throw"

\* mutation of negotiateVersion: feature detection is consulted before the path
negotiateVersionFeatureFirst(path, body) ==
    IF needsVersionDowngrade(body) = Return(TRUE) THEN "v1beta"
    ELSE IF versionMatch(path) # null THEN versionMatch(path)[1]
    ELSE DEFAULT_API_VERSION

\* let targetVersion = ...; if (versionMatch) ... else if (needsVersionDowngrade(body)) ...
negotiateVersion(path, body) ==
    IF versionMatch(path) # null THEN versionMatch(path)[1]
    ELSE IF needsVersionDowngrade(body) = Return(TRUE) THEN "v1beta"
    ELSE DEFAULT_API_VERSION

\* how the router treats the rejected promise of an async handler: a router
\* that drops the promise leaves an unhandled rejection, which ends the
\* process; a router that passes it to next(err) answers 500
RejectionOutcomes == {"unhandled", "errorHandler"}

\* needsVersionDowngrade raised inside the async handler: the handler's promise
\* rejects before anything is written or sent upstream
NegotiationThrows(outcome) ==
    /\ pc = "handler"
    /\ ~crashed
    /\ req.path # faviconPath
    /\ ~debugRequested(req)
    /\ apiKey' = extractApiKey(req)
    /\ ~keyMissing(apiKey')
    /\ negotiationThrows(req.path, heap[req.body])
    /\ IF outcome = "unhandled"
       THEN /\ pc' = "rejected"
            /\ crashed' = TRUE
            /\ res' = res
       ELSE /\ pc' = "done"
            /\ crashed' = crashed
            /\ res' = endEmpty(res, 500)
    /\ UNCHANGED << debugMode, req, heap, targetVersion, compatibleBody,
                    outbound, upstream, caller, log, hdrTrace, ret >>

\* let targetPath = path; if (!path.startsWith(...)) targetPath = ...
buildTargetPath(path, version) ==
    IF ~startsWith(path, << "/", version, "/" >>)
       /\ ~startsWith(path, << "/", "v1", "/" >>)
       /\ ~startsWith(path, << "/", "v1beta", "/" >>)
    THEN << "/", version >> \o (IF startsWith(path, << "/" >>) THEN << >> ELSE << "/" >>) \o path
    ELSE path

strippedQueryNames == {"key", "api_key", "apikey", "token", "access_token", "debug"}

\* const queryParams = { ...req.query }; delete ...; queryParams.key = apiKey
buildQuery(query, key) ==
    [n \in QueryNames |->
        IF n = "key" THEN key
        ELSE IF n \in strippedQueryNames THEN undefined
        ELSE query[n]]

skipHeaders ==
    {"host", "connection", "content-length", "x-goog-api-key", "authorization",
     "x-api-key", "api-key", "accept-encoding"}

\* the inbound headers copied onto the outbound request
buildHeaders(headers) ==
    [n \in HeaderNames |-> IF n \in skipHeaders THEN undefined ELSE headers[n]]

\* data: ['POST', 'PUT', 'PATCH'].includes(method) ? compatibleBody : undefined
outboundData(method, body) ==
    IF method \in {"POST", "PUT", "PATCH"} THEN body ELSE JUndefined

\* the rest of the handler up to the await: negotiation, compatibility,
\* request building, and the axios call
Forward ==
    /\ pc = "handler"
    /\ ~crashed
    /\ req.path # faviconPath
    /\ ~debugRequested(req)
    /\ apiKey' = extractApiKey(req)
    /\ ~keyMissing(apiKey')
    /\ ~negotiationThrows(req.path, heap[req.body])
    /\ targetVersion' = negotiateVersion(req.path, heap[req.body])
    /\ LET made == makeBodyCompatible(heap, req.body, targetVersion')
       IN  /\ heap' = made.heap
           /\ compatibleBody' = made.ret
           /\ outbound' =
                [issued |-> TRUE, method |-> req.method,
                 path |-> buildTargetPath(req.path, targetVersion'),
                 query |-> buildQuery(req.query, apiKey'),
                 headers |-> buildHeaders(req.headers),
                 data |-> outboundData(req.method, made.heap[made.ret])]
    /\ log' = debugLog(log, "forward")
    /\ upstream' = [upstream EXCEPT !.state = "pending"]
    /\ pc' = "awaiting"
    /\ UNCHANGED << debugMode, req, res, caller, hdrTrace, crashed, ret >>

----------------------------------------------------------------------------
(* The relay: the awaited axios call, the pipe, and what the two peers do. *)

MaxChunks == 2

UpstreamStatuses == {200, 502}
FailureReasons == {"ECONNREFUSED", "ENOTFOUND"}

\* the header names of an upstream response (lower-cased by the HTTP parser)
upstreamHeaderNames ==
    { << "content-type" >>, << "set-cookie" >>, << "x-goog-", "safety-encoding" >> }

safeHeaders ==
    { << "content-type" >>, << "content-encoding" >>, << "cache-control" >>,
      << "expires" >>, << "last-modified" >>, << "etag" >>, << "vary" >>,
      << "x-goog-", "generation" >>, << "x-goog-", "metageneration" >> }

\* safeHeaders.includes(key.toLowerCase()) || key.startsWith('x-goog-')
relayedHeaders(names) ==
    { n \in names : n \in safeHeaders \/ startsWith(n, << "x-goog-" >>) }

\* the await resolves with a response of any status: relay the headers, set
\* X-Proxy-Request-ID and the status, pipe the body stream into res
AxiosResolve(status, n) ==
    /\ pc = "awaiting"
    /\ ~crashed
    /\ hdrTrace' = setHeaders(hdrTrace, res,
                      relayedHeaders(upstreamHeaderNames) \cup { << "X-Proxy-Request-ID" >> })
    /\ res' = [res EXCEPT !.status = status]
    /\ upstream' = [state |-> "open", piped |-> TRUE, total |-> n, pos |-> 0]
    /\ pc' = "piping"
    /\ UNCHANGED << debugMode, req, heap, apiKey, targetVersion, compatibleBody,
                    outbound, caller, log, crashed, ret >>

\* mutation of gatewayError: the payload of the 401 reused for the gateway failure
gatewayErrorAs401(reason) ==
    [error |-> [code |-> 401,
                message |-> << "Failed to connect to Google Gemini API: ", reason >>,
                status |-> "UNAUTHENTICATED"]]

gatewayError(reason) ==
    [error |-> [code |-> 502,
                message |-> << "Failed to connect to Google Gemini API: ", reason >>,
                status |-> "BAD_GATEWAY"]]

\* the await rejects: catch (error) { debugLog(...); if (!res.headersSent) ... }
AxiosReject(reason) ==
    /\ pc = "awaiting"
    /\ ~crashed
    /\ log' = debugLog(log, "proxy error")
    /\ res' = IF ~res.headersSent THEN sendJson(res, 502, gatewayError(reason)) ELSE res
    /\ upstream' = [upstream EXCEPT !.state = "unreachable"]
    /\ pc' = "done"
    /\ UNCHANGED << debugMode, req, heap, apiKey, targetVersion, compatibleBody,
                    outbound, caller, hdrTrace, crashed, ret >>

\* a 'data' event of the piped stream: the chunk is written to res, the
\* first write sends the headers.  A write to a response whose caller is gone
\* returns false and pipe pauses the source until a 'drain' that never comes.
PipeChunk ==
    /\ pc = "piping"
    /\ ~crashed
    /\ upstream.state = "open" /\ upstream.piped
    /\ caller = "open"
    /\ upstream.pos < upstream.total
    /\ upstream' = [upstream EXCEPT !.pos = upstream.pos + 1]
    /\ res' = [res EXCEPT !.bytes = Append(res.bytes, upstream.pos + 1),
                          !.headersSent = TRUE]
    /\ UNCHANGED << pc, debugMode, req, heap, apiKey, targetVersion, compatibleBody,
                    outbound, caller, log, hdrTrace, crashed, ret >>

\* the 'end' event of the piped stream: pipe calls res.end().  end() without
\* a chunk marks the headers as sent even when the caller is gone; 'finish'
\* is emitted only when the caller is still there.
PipeEnd ==
    /\ pc = "piping"
    /\ ~crashed
    /\ upstream.state = "open" /\ upstream.piped
    /\ upstream.pos = upstream.total
    /\ upstream' = [upstream EXCEPT !.state = "ended", !.piped = FALSE]
    /\ res' = IF caller = "open"
              THEN [res EXCEPT !.headersSent = TRUE, !.ended = TRUE, !.finished = TRUE]
              ELSE [res EXCEPT !.headersSent = TRUE, !.ended = TRUE]
    /\ pc' = "done"
    /\ UNCHANGED << debugMode, req, heap, apiKey, targetVersion, compatibleBody,
                    outbound, caller, log, hdrTrace, crashed, ret >>

\* the upstream connection breaks while the body is being relayed: the stream
\* emits 'error'.  The source attaches no listener to it and pipe does not
\* end its destination, so res is left as it is and nothing is logged.
\* Whether the event is then an uncaught exception depends on whether the
\* HTTP client library listens on the stream it handed out.
UpstreamError(uncaught) ==
    /\ pc = "piping"
    /\ ~crashed
    /\ upstream.state = "open"
    /\ upstream' = [upstream EXCEPT !.state = "failed", !.piped = FALSE]
    /\ crashed' = uncaught
    /\ UNCHANGED << pc, debugMode, req, heap, apiKey, targetVersion, compatibleBody,
                    outbound, res, caller, log, hdrTrace, ret >>

\* the caller goes away before the response is complete, whatever the state
\* of the upstream: res closes, and if the stream is being piped, pipe's
\* 'close' listener unpipes the source, which stays open and paused.  The
\* source registers no 'close' listener and passes no abort signal to axios.
CallerDisconnect ==
    /\ pc \in {"awaiting", "piping"}
    /\ ~crashed
    /\ caller = "open"
    /\ caller' = "gone"
    /\ upstream' = [upstream EXCEPT !.piped = FALSE]
    /\ res' = res
    /\ UNCHANGED << pc, debugMode, req, heap, apiKey, targetVersion, compatibleBody,
                    outbound, log, hdrTrace, crashed, ret >>

\* the upstream server closes an unread stream on its own accord
UpstreamCloses ==
    /\ pc = "piping"
    /\ ~crashed
    /\ caller = "gone"
    /\ upstream.state = "open"
    /\ upstream' = [upstream EXCEPT !.state = "closed"]
    /\ UNCHANGED << pc, debugMode, req, heap, apiKey, targetVersion, compatibleBody,
                    outbound, res, caller, log, hdrTrace, crashed, ret >>

----------------------------------------------------------------------------
(* Requests.                                                               *)

Request(method, path, xgoog, auth, httpDebug, key, token, debug, body) ==
    [method |-> method, path |-> path,
     headers |-> [n \in HeaderNames |->
                    CASE n = "x-goog-api-key" -> xgoog
                      [] n = "authorization" -> auth
                      [] OTHER -> httpDebug],
     query |-> [n \in QueryNames |->
                    CASE n = "key" -> key
                      [] n = "token" -> token
                      [] n = "debug" -> debug
                      [] n = "alt" -> << "sse" >>
                      [] OTHER -> undefined],
     body |-> body]

Methods == {"GET", "POST", "OPTIONS"}

Paths ==
    { << "/", "models" >>, << "/", "v1", "/", "models" >>,
      << "/", "v1beta", "/", "models" >>, << "/", "v1" >>, faviconPath }

toolCallsPart == JObj(<< Entry("tool_calls", JStr("s")) >>)

HandlerBodies ==
    { JUndefined,
      JObj(<< >>),
      JObj(<< Entry("x", JStr("s")) >>),
      JObj(<< Entry("contents",
                    JArr(<< JObj(<< Entry("parts", JArr(<< toolCallsPart >>)) >>) >>)) >>),
      JObj(<< Entry("tool_calls", JStr("s")),
              Entry("x", JArr(<< JObj(<< Entry("systemInstruction", JNum("1")) >>) >>)) >>),
      JObj(<< Entry("contents", JArr(<< JNull >>)) >>) }

HandlerRequests ==
    { Request(m, p, g, a, hd, k, undefined, d, 1) :
        m \in Methods, p \in Paths,
        g \in {undefined, << "G1" >>},
        a \in {undefined, << "Bearer", " ", "K1" >>, << "Basic", " ", "x" >>},
        hd \in {undefined, << "true" >>},
        k \in {undefined, << "Q1" >>},
        d \in {undefined, << "true" >>} }

InitCommon ==
    /\ apiKey = undefined
    /\ targetVersion = "unset"
    /\ compatibleBody = 0
    /\ outbound = NoCall
    /\ res = freshRes
    /\ upstream = noUpstream
    /\ caller = "open"
    /\ log = << >>
    /\ hdrTrace = {}
    /\ crashed = FALSE
    /\ ret = "none"

Init ==
    /\ InitCommon
    /\ debugMode \in BOOLEAN
    /\ pc = "received"
    /\ req \in HandlerRequests
    /\ \E b \in HandlerBodies : heap = << b >>

Next ==
    \/ Middleware
    \/ OnFinish
    \/ Favicon
    \/ DebugRoute
    \/ Unauthenticated
    \/ \E outcome \in RejectionOutcomes : NegotiationThrows(outcome)
    \/ Forward
    \/ \E status \in UpstreamStatuses, n \in 0..MaxChunks : AxiosResolve(status, n)
    \/ \E reason \in FailureReasons : AxiosReject(reason)
    \/ PipeChunk
    \/ PipeEnd
    \/ \E uncaught \in BOOLEAN : UpstreamError(uncaught)
    \/ CallerDisconnect
    \/ UpstreamCloses

Spec == Init /\ [][Next]_vars

\* the event loop runs every callback that is ready; the two peers (the
\* caller and the upstream server) are under no obligation
\* one request of each kind the handler distinguishes
RelayRequests ==
    { Request("OPTIONS", << "/", "models" >>, undefined, undefined, undefined,
              undefined, undefined, undefined, 1),
      Request("GET", faviconPath, undefined, undefined, undefined,
              undefined, undefined, undefined, 1),
      Request("GET", << "/", "models" >>, undefined, undefined, undefined,
              << "Q1" >>, undefined, << "true" >>, 1),
      Request("GET", << "/", "models" >>, undefined, undefined, undefined,
              undefined, undefined, undefined, 1),
      Request("POST", << "/", "models" >>, << "G1" >>, undefined, undefined,
              undefined, undefined, undefined, 1),
      Request("POST", << "/", "v1", "/", "models" >>, undefined, << "Bearer", " ", "K1" >>,
              undefined, undefined, undefined, undefined, 1) }

InitRelay ==
    /\ InitCommon
    /\ debugMode \in BOOLEAN
    /\ pc = "received"
    /\ req \in RelayRequests
    /\ \E b \in HandlerBodies : heap = << b >>

FairSpec ==
    /\ InitRelay /\ [][Next]_vars
    /\ WF_vars(Middleware)
    /\ WF_vars(Favicon \/ DebugRoute \/ Unauthenticated \/ Forward
                  \/ \E outcome \in RejectionOutcomes : NegotiationThrows(outcome))
    /\ WF_vars(PipeChunk)
    /\ WF_vars(PipeEnd)
    /\ WF_vars(OnFinish)

----------------------------------------------------------------------------
(* extractApiKey on its own, over every Authorization value up to          *)
(* MaxAuthLen tokens.  The HTTP parser strips leading and trailing blanks  *)
(* from a header value, and two adjacent words are one word.               *)

MaxAuthLen == 5

AuthAlphabet == {"Bearer", "bearer", "Basic", "K1", " ", "\t"}

wellFormed(s) ==
    /\ ~IsWS(s[1]) /\ ~IsWS(s[Len(s)])
    /\ \A i \in 1..(Len(s) - 1) : IsWS(s[i]) \/ IsWS(s[i + 1])

AuthValues ==
    {undefined} \cup
    { s \in UNION { [1..n -> AuthAlphabet] : n \in 1..MaxAuthLen } : wellFormed(s) }

KeyRequests ==
    { Request("GET", << "/", "models" >>, g, a, undefined, k, t, undefined, 1) :
        g \in {undefined, << "G1" >>},
        a \in AuthValues,
        k \in {undefined, << >>, << "Q1" >>},
        t \in {undefined, << "Q2" >>} }

InitKey ==
    /\ InitCommon
    /\ debugMode = FALSE
    /\ pc = "fn"
    /\ req \in KeyRequests
    /\ heap = << JUndefined >>

ApplyExtractApiKey ==
    /\ pc = "fn"
    /\ apiKey' = extractApiKey(req)
    /\ pc' = "extractApiKey"
    /\ UNCHANGED << debugMode, req, heap, targetVersion, compatibleBody, outbound,
                    res, upstream, caller, log, hdrTrace, crashed, ret >>

NextKey == ApplyExtractApiKey

KeySpec == InitKey /\ [][NextKey]_vars

----------------------------------------------------------------------------
(* needsVersionDowngrade and makeBodyCompatible on their own, over every   *)
(* body built from a leaf by at most MaxDepth wrappings.                   *)

MaxDepth == 4

Leaves == { JNull, JNum("0"), JStr("s"), JObj(<< Entry("tool_config", JStr("s")) >>) }

Wrappings(v) ==
    { JArr(<< JStr("s"), v >>),
      JObj(<< Entry("contents", v) >>),
      JObj(<< Entry("parts", v) >>),
      JObj(<< Entry("tool_calls", v) >>),
      JObj(<< Entry("x", v), Entry("systemInstruction", JNum("1")) >>) }

RECURSIVE Bodies(_)
Bodies(d) ==
    IF d = 0 THEN Leaves
    ELSE UNION { {v} \cup Wrappings(v) : v \in Bodies(d - 1) }

InitBody ==
    /\ InitCommon
    /\ debugMode = FALSE
    /\ pc = "fn"
    /\ req = Request("POST", << "/", "models" >>, << "G1" >>, undefined, undefined,
                     undefined, undefined, undefined, 1)
    /\ \E b \in Bodies(MaxDepth) : heap = << b >>

ApplyNeedsVersionDowngrade ==
    /\ pc = "fn"
    /\ ret' = needsVersionDowngrade(heap[req.body])
    /\ pc' = "needsVersionDowngrade"
    /\ UNCHANGED << debugMode, req, heap, apiKey, targetVersion, compatibleBody,
                    outbound, res, upstream, caller, log, hdrTrace, crashed >>

ApplyMakeBodyCompatible(version) ==
    /\ pc = "fn"
    /\ LET made == makeBodyCompatible(heap, req.body, version)
       IN  /\ heap' = made.heap
           /\ compatibleBody' = made.ret
    /\ targetVersion' = version
    /\ pc' = "makeBodyCompatible"
    /\ UNCHANGED << debugMode, req, apiKey, outbound, res, upstream, caller, log,
                    hdrTrace, crashed, ret >>

NextBody ==
    \/ ApplyNeedsVersionDowngrade
    \/ \E version \in {"v1", "v1beta"} : ApplyMakeBodyCompatible(version)

BodySpec == InitBody /\ [][NextBody]_vars

----------------------------------------------------------------------------
(* Properties.                                                             *)

\* the handler has run to its first await or to its return
handlerRan == pc \in {"done", "awaiting", "piping", "rejected"}

reachesHandler == req.method # "OPTIONS" /\ req.path # faviconPath

restrictedFields == {"systemInstruction", "tool_config", "tool_calls"}

\* no object at any depth of v has a restricted key
RECURSIVE noRestricted(_)
noRestricted(v) ==
    /\ v.t = "array" => \A i \in 1..Len(v.a) : noRestricted(v.a[i])
    /\ v.t = "object" =>
          \A i \in 1..Len(v.a) : v.a[i].k \notin restrictedFields /\ noRestricted(v.a[i].v)

\* the nodes of a tree: each with the keys and indices that lead to it
Step(k, i) == [k |-> k, i |-> i]
RECURSIVE nodes(_, _)
nodes(v, path) ==
    { [path |-> path, t |-> v.t, s |-> v.s] }
    \cup (IF v.t = "array"
          THEN UNION { nodes(v.a[i], Append(path, Step("", i))) : i \in 1..Len(v.a) }
          ELSE {})
    \cup (IF v.t = "object"
          THEN UNION { nodes(v.a[i].v, Append(path, Step(v.a[i].k, 0))) : i \in 1..Len(v.a) }
          ELSE {})

\* the nodes not under a restricted key
keptNodes(v) ==
    { n \in nodes(v, << >>) : \A j \in 1..Len(n.path) : n.path[j].k \notin restrictedFields }

\* C1: a request that reaches the handler without a debug flag and without a
\* resolvable key is answered 401 with the fixed UNAUTHENTICATED payload, and
\* no outbound call is issued for it.
C1_Unauthenticated ==
    (handlerRan /\ reachesHandler /\ ~debugRequested(req) /\ ~Truthy(extractApiKey(req)))
    => /\ pc = "done"
       /\ res.status = 401 /\ res.ended
       /\ res.json = [error |-> [code |-> 401, message |-> << "API key not found" >>,
                                 status |-> "UNAUTHENTICATED"]]
       /\ outbound = NoCall
       /\ upstream.state = "none"

C1_Witness ==
    /\ pc = "done" /\ req.method = "POST" /\ ~debugRequested(req)
    /\ req.headers["authorization"] = << "Basic", " ", "x" >>
    /\ ~Truthy(extractApiKey(req))
    /\ res.status = 401 /\ outbound = NoCall

\* C2: when the outbound call fails, the caller is answered 502 with the
\* BAD_GATEWAY payload carrying the reason, and a JSON error payload is only
\* ever written to a response of which no byte has been sent.
C2_GatewayFailure ==
    /\ upstream.state = "unreachable" =>
          /\ res.status = 502 /\ res.ended /\ res.bytes = << >>
          /\ caller = "open" => res.headersSent /\ res.finished
          /\ \E reason \in FailureReasons :
                res.json = [error |-> [code |-> 502,
                                       message |-> << "Failed to connect to Google Gemini API: ",
                                                      reason >>,
                                       status |-> "BAD_GATEWAY"]]
    /\ res.json # NoJson => res.bytes = << >>

C2_Witness ==
    /\ upstream.state = "unreachable" /\ outbound # NoCall
    /\ res.status = 502 /\ res.json # NoJson /\ caller = "open" /\ res.headersSent

\* C3: once the caller is gone while the upstream stream is still open, the
\* upstream stream is eventually closed.
C3_AbortOnDisconnect ==
    (pc = "piping" /\ caller = "gone" /\ upstream.state = "open")
        ~> (upstream.state # "open")

\* some message other than the forwarding notice has been logged
failureLogged == \E i \in 1..Len(log) : log[i] # "forward"

\* C4: once the upstream stream has failed after bytes were relayed, the
\* caller's response is eventually terminated with exactly the bytes relayed,
\* without a JSON error payload, and the failure is logged.
C4_TruncatedAndLogged ==
    (upstream.state = "failed" /\ res.bytes # << >>)
        ~> (/\ res.ended \/ caller = "gone"
            /\ res.json = NoJson
            /\ res.bytes = [i \in 1..Len(res.bytes) |-> i]
            /\ failureLogged)

\* C5: feature detection never raises, whatever the shape of the body.
C5_NeverRaises == pc = "needsVersionDowngrade" => ret.kind = "return"

\* C6: makeBodyCompatible for v1 returns a body without any restricted key at
\* any depth, equal to the input in everything else, and leaves the input
\* object as it was.
C6_StripsCopy ==
    [][(pc = "fn" /\ pc' = "makeBodyCompatible" /\ targetVersion' = "v1")
        => /\ noRestricted(heap'[compatibleBody'])
           /\ nodes(heap'[compatibleBody'], << >>) = keptNodes(heap[req.body])
           /\ heap'[req.body] = heap[req.body]]_vars

C6_Witness ==
    /\ pc = "makeBodyCompatible" /\ targetVersion = "v1"
    /\ heap[req.body] =
          JObj(<< Entry("x", JArr(<< JStr("s"),
                                     JObj(<< Entry("tool_config", JStr("s")) >>) >>)),
                  Entry("systemInstruction", JNum("1")) >>)
    /\ compatibleBody # req.body
    /\ heap[compatibleBody] = JObj(<< Entry("x", JArr(<< JStr("s"), JObj(<< >>) >>)) >>)

\* C7: the version segment that leads the outbound path is the version the
\* body was made compatible with; a path pinned to /v1/ targets v1 whatever
\* the body holds and is sent stripped; a body is only ever stripped on a
\* /v1/ outbound path.
C7_SingleVersion ==
    outbound # NoCall =>
        /\ startsWith(outbound.path, << "/", targetVersion, "/" >>)
        /\ targetVersion \in {"v1", "v1beta"}
        /\ targetVersion = "v1" => noRestricted(heap[compatibleBody])
        /\ targetVersion = "v1beta" => compatibleBody = req.body
        /\ startsWith(req.path, << "/", "v1", "/" >>) =>
              /\ targetVersion = "v1"
              /\ outbound.path = req.path
              /\ noRestricted(outbound.data)
        /\ (compatibleBody # req.body \/ heap[compatibleBody] # heap[req.body]) =>
              startsWith(outbound.path, << "/", "v1", "/" >>)

C7_Witness ==
    /\ outbound # NoCall /\ req.method = "POST"
    /\ req.path = << "/", "v1", "/", "models" >>
    /\ getProp(heap[req.body], "tool_calls") = JStr("s")
    /\ targetVersion = "v1"
    /\ outbound.data = JObj(<< Entry("x", JArr(<< JObj(<< >>) >>)) >>)

\* C8: a request carrying a debug flag is answered with the diagnostic
\* payload (method, path, whether a key was found, runtime data) and nothing
\* else, key or no key, and no outbound call is issued for it.
C8_DebugRoute ==
    (handlerRan /\ reachesHandler /\ debugRequested(req))
    => /\ pc = "done"
       /\ res.status = 200 /\ res.ended
       /\ res.json = [debug |-> TRUE, method |-> req.method, path |-> req.path,
                      api_key_found |-> Truthy(extractApiKey(req)),
                      server_info |-> "process"]
       /\ outbound = NoCall
       /\ upstream.state = "none"

C8_Witness ==
    /\ pc = "done" /\ req.method = "GET" /\ req.path = << "/", "models" >>
    /\ req.query["key"] = << "Q1" >> /\ req.query["debug"] = << "true" >>
    /\ res.json # NoJson /\ res.json.api_key_found
    /\ outbound = NoCall

\* the shapes of an Authorization value
bearerForm(auth) ==
    Truthy(auth) /\ Len(auth) >= 3 /\ auth[1] \in {"Bearer", "bearer"} /\ IsWS(auth[2])
bareToken(auth) == Truthy(auth) /\ ~includesSpace(auth) /\ ~bearerForm(auth)
severalTokens(auth) == Truthy(auth) /\ includesSpace(auth) /\ ~bearerForm(auth)

noVendorKey == ~Truthy(req.headers["x-goog-api-key"])

\* C9 as stated: without a vendor key header, a Bearer value yields its token,
\* a bare token yields itself, and several non-Bearer tokens yield absent.
C9_AsStated ==
    (pc = "extractApiKey" /\ noVendorKey) =>
        LET auth == req.headers["authorization"]
        IN  /\ bearerForm(auth) =>
                \E i \in 3..Len(auth) :
                    /\ \A j \in 2..(i - 1) : IsWS(auth[j])
                    /\ ~IsWS(auth[i])
                    /\ apiKey = SubSeq(auth, i, Len(auth))
            /\ bareToken(auth) => apiKey = auth
            /\ severalTokens(auth) => apiKey = null

\* C9 amended: several non-Bearer tokens fall through to the query
\* parameters, and yield absent only when none of them is set.
C9_Amended ==
    (pc = "extractApiKey" /\ noVendorKey) =>
        LET auth == req.headers["authorization"]
            q == req.query
        IN  /\ bearerForm(auth) =>
                \E i \in 3..Len(auth) :
                    /\ \A j \in 2..(i - 1) : IsWS(auth[j])
                    /\ ~IsWS(auth[i])
                    /\ apiKey = SubSeq(auth, i, Len(auth))
            /\ bareToken(auth) => apiKey = auth
            /\ severalTokens(auth) =>
                apiKey = IF Truthy(q["key"]) THEN q["key"]
                         ELSE IF Truthy(q["api_key"]) THEN q["api_key"]
                         ELSE IF Truthy(q["apikey"]) THEN q["apikey"]
                         ELSE IF Truthy(q["token"]) THEN q["token"]
                         ELSE IF Truthy(q["access_token"]) THEN q["access_token"]
                         ELSE null

C9_Witness ==
    /\ pc = "extractApiKey" /\ noVendorKey
    /\ req.headers["authorization"] = << "Basic", " ", "K1" >>
    /\ req.query["key"] = << >> /\ req.query["token"] = << "Q2" >>
    /\ apiKey = << "Q2" >>

\* C10: no header is written to the response once its headers have been sent.
C10_HeadersBeforeSend == \A e \in hdrTrace : ~e.sent

====
